---- MODULE Spec2Model ----
(***************************************************************************)
(* Model of the resumable deployment orchestrator of deploy_bcm_air.py:    *)
(* the ProgressTracker checkpoint store, the step sequence of main, the    *)
(* SSH password bootstrap (configure_node_passwords) and the post-install  *)
(* action loop (run_post_install_features).                                *)
(*                                                                         *)
(* Python None is the string "None" for string-valued slots and NoInt for  *)
(* integer-valued slots.  A record of the tracker carries the keys some    *)
(* code path reads back (last_step, simulation_id, cloudinit_success,      *)
(* post_install_action_index); an absent key holds None.  The keys that    *)
(* are only ever written (bootstrap_method, bootstrap_tool,                *)
(* bootstrap_password_change_prompt, post_install_action_total,            *)
(* post_install_action, simulation_state_before_start, last_updated) are   *)
(* not carried in the record: every call that writes them is kept as a     *)
(* write of the artifact, and lastSet holds the keyword arguments of the   *)
(* last such call.                                                         *)
(***************************************************************************)
EXTENDS Integers, Sequences, FiniteSets, TLC

VARIABLES
    file,        \* progress.json on disk: [st, rec]
    data,        \* ProgressTracker.data of the live process (SpecRace: of the
                 \* two live processes)
    pc,          \* position of the live process
    rc,          \* return value of main ("none" while running)
    args,        \* command line flags of the current run
    cloudinit_success, \* local variable of main
    startLast,   \* ghost: last_step the run found when it loaded the checkpoint
    fxRun,       \* ghost: side effects performed by the current run
    firstDone,   \* ghost: first step the current run passed to complete_step
    prevEnd,     \* ghost: main: "no", or what the invocation that only cleared
                 \* the checkpoint removed; action loop: where the last call ended
    fresh,       \* ghost: "no", or what progress.clear() removed before this run:
                 \* "cleared" an empty checkpoint, "wiped" one that held progress
    wpost,       \* ghost: record the last mutation of the tracker was writing
    lastSet,     \* keyword arguments of the tracker call the last step made
    qres,        \* the last call of a driver and what it returned:
                 \* is_step_completed (SpecStore), _resolve_versioned_value
                 \* (SpecResolve); the parsed features.yaml (SpecPlan);
                 \* the instances that have written (SpecRace)
    actions,     \* resolved post-install action list (sequence of action types)
    i,           \* loop variable of run_post_install_features
    success,     \* success flag of run_post_install_features
    apc,         \* position inside run_post_install_features
    ran,         \* ghost: sequence of action indices dispatched by this invocation
    startIdx,    \* ghost: post_install_action_index found on entry
    lastOut,     \* ghost: outcome of the action dispatched by the last step
    bpc,         \* position inside configure_node_passwords
    env,         \* tools installed on the control host
    attempt,     \* loop variable of the readiness probe
    ready,       \* local variable of configure_node_passwords
    details,     \* details dict of configure_node_passwords
    bok,         \* first component of the value configure_node_passwords returns
    bghost       \* ghost: credential attempts made and what they produced

vars == << file, data, pc, rc, args, cloudinit_success, startLast, fxRun,
           firstDone, prevEnd, fresh, wpost, lastSet, qres, actions, i, success,
           apc, ran, startIdx, lastOut, bpc, env, attempt, ready, details, bok,
           bghost >>

storeVars == << file, data, wpost, lastSet >>
mainVars  == << rc, args, cloudinit_success, startLast, fxRun, firstDone,
                prevEnd, fresh >>
loopVars  == << actions, i, success, apc, ran, startIdx, lastOut >>
bootVars  == << bpc, env, attempt, ready, details, bok, bghost >>

-----------------------------------------------------------------------------
(* Bounds *)

MaxActions == 2   \* length of the post-install action list
MaxPolls   == 2   \* SSH polls that fit into the reboot reconnect timeout
MaxMainActions == 1 \* length of the action list in the runs of main

-----------------------------------------------------------------------------
(* ProgressTracker *)

None  == "None"
NoInt == -1

STEPS == << "init", "bcm_version_selected", "password_configured",
            "simulation_name_set", "simulation_created", "cloudinit_configured",
            "simulation_started", "simulation_loaded", "ssh_enabled",
            "node_ready", "ssh_configured", "bcm_installed",
            "features_configured", "completed" >>

StepNames    == { STEPS[n] : n \in 1..Len(STEPS) }
UnknownSteps == { "not_a_step" }

EmptyRec == [ last_step |-> None,
              simulation_id |-> None,
              cloudinit_success |-> None,
              post_install_action_index |-> NoInt ]

NoFile      == [ st |-> "absent",  rec |-> EmptyRec ]
CorruptFile == [ st |-> "corrupt", rec |-> EmptyRec ]
OkFile(d)   == [ st |-> "ok",      rec |-> d ]

\* _load: the parsed artifact, {} when it is missing or does not parse
_load(f) == IF f.st = "ok" THEN f.rec ELSE EmptyRec

get_last_step(d) == d.last_step

\* STEPS.index(step), 0-based; -1 on ValueError
get_step_index(step) ==
    IF \E n \in 1..Len(STEPS) : STEPS[n] = step
    THEN (CHOOSE n \in 1..Len(STEPS) : STEPS[n] = step) - 1
    ELSE -1

is_step_completed(d, step) ==
    IF get_last_step(d) = None
    THEN FALSE
    ELSE get_step_index(step) <= get_step_index(get_last_step(d))

\* for key, value in kwargs.items(): self.data[key] = value
Merge(d, kv) == [ k \in DOMAIN d |-> IF k \in DOMAIN kv THEN kv[k] ELSE d[k] ]

\* variant: the step is not written into the record
complete_step_m(d, step, kv) == Merge(d, kv)

complete_step(d, step, kv) == Merge([ d EXCEPT !.last_step = step ], kv)

\* variant: the kwargs replace the record instead of being merged into it
set_m(d, kv) == Merge(EmptyRec, kv)

set(d, kv) == Merge(d, kv)

\* variant: the in-memory record survives the clear
clear_m(d) == d

clear(d) == EmptyRec

NoKv == [ k \in {} |-> None ]

\* _save opens the artifact with mode 'w' (which truncates it) and then
\* streams the JSON text into it.  Either the write runs to its end, or the
\* process dies inside it and leaves a truncated artifact that does not parse.
_save(d, kv, nextpc) ==
    /\ wpost' = d
    /\ \/ /\ data' = d
          /\ file' = OkFile(d)
          /\ pc' = nextpc
       \/ /\ data' = EmptyRec
          /\ file' = CorruptFile
          /\ pc' = "killed"
    /\ lastSet' = IF pc' = "killed" THEN NoKv ELSE kv

\* progress.clear(): self.data = {} and the artifact is unlinked
ClearProgress ==
    /\ data' = clear(data)
    /\ file' = NoFile
    /\ wpost' = EmptyRec
    /\ lastSet' = NoKv

StoreInit ==
    /\ file = NoFile
    /\ data = EmptyRec
    /\ wpost = EmptyRec
    /\ lastSet = NoKv

-----------------------------------------------------------------------------
(* Idle values of the parts a specification does not exercise *)

NoArgs == [ resume |-> FALSE, clear_progress |-> FALSE, sim_id |-> FALSE,
            skip_ansible |-> FALSE, skip_cloud_init |-> FALSE ]

MainIdle ==
    /\ rc = "none"
    /\ args = NoArgs
    /\ cloudinit_success = FALSE
    /\ startLast = None
    /\ fxRun = {}
    /\ firstDone = None
    /\ prevEnd = "no"
    /\ fresh = "no"

NoOutcome == [ type |-> None, out |-> None, cmd |-> None, back |-> FALSE ]

LoopIdle ==
    /\ actions = << >>
    /\ i = 0
    /\ success = TRUE
    /\ apc = "idle"
    /\ ran = << >>
    /\ startIdx = NoInt
    /\ lastOut = NoOutcome

NoEnv     == [ ssh_info |-> TRUE, which |-> TRUE, sshpass |-> FALSE,
               expect |-> FALSE ]
NoDetails == [ bootstrap_tool |-> None, password_change_prompt |-> None,
               bootstrap_method |-> None ]
NoRun     == [ exc |-> None, returncode |-> 0, stdout |-> "", stderr |-> "" ]
NoBGhost  == [ probe_end |-> None, sshpass_runs |-> 0, expect_runs |-> 0,
               sshpass_out |-> NoRun, expect_out |-> NoRun ]

BootIdle ==
    /\ bpc = "idle"
    /\ env = NoEnv
    /\ attempt = 0
    /\ ready = FALSE
    /\ details = NoDetails
    /\ bok = FALSE
    /\ bghost = NoBGhost

NoQuery == [ step |-> None, last |-> None, result |-> FALSE ]

-----------------------------------------------------------------------------
(* SpecStore: the ProgressTracker driven through its public methods *)

ApiKv == { "none", "simulation_id", "cloudinit_success", "bootstrap_method",
           "post_install_action_index" }

KvOf(k) ==
    CASE k = "simulation_id"             -> [ simulation_id |-> "sim" ]
      [] k = "cloudinit_success"         -> [ cloudinit_success |-> "True" ]
      [] k = "bootstrap_method"          -> [ bootstrap_method |-> "cloud-init" ]
      [] k = "post_install_action_index" -> [ post_install_action_index |-> 1 ]
      [] OTHER                           -> NoKv

ApiCompleteStep ==
    /\ pc = "api"
    /\ \E step \in StepNames, k \in ApiKv :
          _save(complete_step(data, step, KvOf(k)), KvOf(k), "api")
    /\ qres' = NoQuery
    /\ UNCHANGED << mainVars, loopVars, bootVars >>

ApiSet ==
    /\ pc = "api"
    /\ \E k \in ApiKv \ { "none" } :
          _save(set(data, KvOf(k)), KvOf(k), "api")
    /\ qres' = NoQuery
    /\ UNCHANGED << mainVars, loopVars, bootVars >>

ApiClear ==
    /\ pc = "api"
    /\ ClearProgress
    /\ qres' = NoQuery
    /\ UNCHANGED << pc, mainVars, loopVars, bootVars >>

ApiQuery ==
    /\ pc = "api"
    /\ \E step \in StepNames \cup UnknownSteps :
          qres' = [ step |-> step, last |-> get_last_step(data),
                    result |-> is_step_completed(data, step) ]
    /\ UNCHANGED << pc, storeVars, mainVars, loopVars, bootVars >>

\* the process dies between two calls
ApiKill ==
    /\ pc = "api"
    /\ pc' = "killed"
    /\ data' = EmptyRec
    /\ qres' = NoQuery
    /\ UNCHANGED << file, wpost, lastSet, mainVars, loopVars, bootVars >>

\* ProgressTracker.__init__ of the next process
ApiNew ==
    /\ pc = "killed"
    /\ data' = _load(file)
    /\ pc' = "api"
    /\ UNCHANGED << file, wpost, lastSet, qres, mainVars, loopVars, bootVars >>

StoreSpecInit ==
    /\ StoreInit
    /\ pc = "api"
    /\ qres = NoQuery
    /\ MainIdle /\ LoopIdle /\ BootIdle

StoreNext ==
    \/ ApiCompleteStep
    \/ ApiSet
    \/ ApiClear
    \/ ApiQuery
    \/ ApiKill
    \/ ApiNew

SpecStore == StoreSpecInit /\ [][StoreNext]_vars

-----------------------------------------------------------------------------
(* SpecRace: two ProgressTracker instances on one progress.json.  Here      *)
(* data is the pair of their records, wpost the record that holds, key by   *)
(* key, the value persisted last by either of them, and qres the instances  *)
(* that have written.  No process dies in this specification.               *)

RaceSteps == { "simulation_created", "ssh_enabled" }
RaceKv    == { "none", "simulation_id", "cloudinit_success" }

\* instance p calls complete_step(step, **kv): its own record is changed and
\* the whole artifact is rewritten from it
RaceCompleteStep ==
    /\ pc = "race"
    /\ \E p \in 1..2, step \in RaceSteps, k \in RaceKv :
         LET d == complete_step(data[p], step, KvOf(k))
         IN  /\ data' = [ data EXCEPT ![p] = d ]
             /\ file' = OkFile(d)
             /\ wpost' = Merge(Merge(wpost, [ last_step |-> step ]), KvOf(k))
             /\ lastSet' = KvOf(k)
             /\ qres' = [ writers |-> qres.writers \cup { p } ]
    /\ UNCHANGED << pc, mainVars, loopVars, bootVars >>

\* instance p calls set(**kv)
RaceSet ==
    /\ pc = "race"
    /\ \E p \in 1..2, k \in RaceKv \ { "none" } :
         LET d == set(data[p], KvOf(k))
         IN  /\ data' = [ data EXCEPT ![p] = d ]
             /\ file' = OkFile(d)
             /\ wpost' = Merge(wpost, KvOf(k))
             /\ lastSet' = KvOf(k)
             /\ qres' = [ writers |-> qres.writers \cup { p } ]
    /\ UNCHANGED << pc, mainVars, loopVars, bootVars >>

\* the process of instance p has ended and its next one constructs the
\* tracker: self.data = self._load()
RaceNew ==
    /\ pc = "race"
    /\ \E p \in 1..2 : data' = [ data EXCEPT ![p] = _load(file) ]
    /\ UNCHANGED << pc, file, wpost, lastSet, qres, mainVars, loopVars, bootVars >>

RaceInit ==
    /\ file \in { NoFile, OkFile([ EmptyRec EXCEPT !.last_step = "init" ]) }
    /\ data = << _load(file), _load(file) >>
    /\ wpost = _load(file)
    /\ lastSet = NoKv
    /\ pc = "race"
    /\ qres = [ writers |-> {} ]
    /\ MainIdle /\ LoopIdle /\ BootIdle

RaceNext ==
    \/ RaceCompleteStep
    \/ RaceSet
    \/ RaceNew

SpecRace == RaceInit /\ [][RaceNext]_vars

-----------------------------------------------------------------------------
(* ProgressTracker(): loading whatever progress.json holds *)

\* an artifact open() cannot read (IOError), and one whose bytes are not
\* text in the locale's encoding (UnicodeDecodeError, a ValueError that is
\* not a JSONDecodeError)
UnreadableFile  == [ st |-> "unreadable",  rec |-> EmptyRec ]
UndecodableFile == [ st |-> "undecodable", rec |-> EmptyRec ]

Checkpoints ==
    [ last_step : StepNames \cup { None },
      simulation_id : { None, "sim" },
      cloudinit_success : { None, "True", "False" },
      post_install_action_index : { NoInt, 0, 1 } ]

Artifacts ==
    { NoFile, CorruptFile, UnreadableFile, UndecodableFile }
        \cup { OkFile(d) : d \in Checkpoints }

\* the exceptions of json.load that "except (json.JSONDecodeError, IOError)"
\* lets through
_load_raises(f) == f.st = "undecodable"

\* __init__: self.data = self._load()
Load ==
    /\ pc = "load"
    /\ IF _load_raises(file)
       THEN pc' = "load_raised" /\ data' = data
       ELSE pc' = "load_returned" /\ data' = _load(file)
    /\ UNCHANGED << file, wpost, lastSet, qres, mainVars, loopVars, bootVars >>

LoadInit ==
    /\ file \in Artifacts
    /\ data = EmptyRec
    /\ wpost = EmptyRec
    /\ lastSet = NoKv
    /\ pc = "load"
    /\ qres = NoQuery
    /\ MainIdle /\ LoopIdle /\ BootIdle

LoadNext == Load

SpecLoad == LoadInit /\ [][LoadNext]_vars

-----------------------------------------------------------------------------
(* run_post_install_features: the resumable action loop *)

ActionTypes == { "cmsh", "upload_ztp", "reboot", "wlm_setup", "other" }

ActionLists == UNION { [ 1..n -> ActionTypes ] : n \in 0..MaxActions }
MainActionLists == UNION { [ 1..n -> ActionTypes ] : n \in 0..MaxMainActions }

\* what the environment makes of one dispatched action
Outcomes(type) ==
    CASE type = "cmsh"       -> { "no_script", "no_file", "scp_fail", "nonzero", "ok", "raise" }
      [] type = "upload_ztp" -> { "no_path", "no_file", "fail", "ok", "raise" }
      [] type = "wlm_setup"  -> { "no_config", "scp_fail", "nonzero", "ok", "raise" }
      [] type = "reboot"     -> { "ok", "timeout" }
      [] OTHER               -> { "skipped" }

RebootCmd   == { "ok", "nonzero", "exc" }
PollResults == { "ok", "refused", "exc" }

\* some poll inside the timeout window answered REBOOT_OK with status 0
PollsReachable(polls) == \E k \in DOMAIN polls : polls[k] = "ok"

\* variant: a reboot command that fails makes the reboot fail
_managed_reboot_m(cmd, polls) == cmd = "ok" /\ PollsReachable(polls)

\* _managed_reboot: the reboot command's own result is dropped, the polls decide
_managed_reboot(cmd, polls) == PollsReachable(polls)

\* variant: the loop always starts at the first action
idx_m(d) == 0

\* idx = int(progress.get("post_install_action_index", 0) or 0)
idx(d) == IF d.post_install_action_index = NoInt THEN 0
          ELSE d.post_install_action_index

\* variant: whatever did not end with "ok" fails and leaves the loop, an
\* action of unknown type included
Dispatch_u(type, out, succ) ==
    [ success |-> (out = "ok") /\ succ, brk |-> out # "ok" ]

\* variant: no action ever leaves the loop with break
Dispatch_m(type, out, succ) ==
    [ success |-> (out = "ok") /\ succ, brk |-> FALSE ]

\* one pass through the if/elif chain of the loop body: the new success flag
\* and whether the loop is left with break
Dispatch(type, out, succ) ==
    CASE type = "cmsh" ->
           IF out \in { "no_script", "no_file" }
           THEN [ success |-> FALSE, brk |-> TRUE ]
           ELSE [ success |-> (out = "ok") /\ succ,
                  brk     |-> ~((out = "ok") /\ succ) ]
      [] type = "upload_ztp" ->
           IF out \in { "no_path", "no_file" }
           THEN [ success |-> succ, brk |-> FALSE ]
           ELSE [ success |-> (out = "ok") /\ succ, brk |-> FALSE ]
      [] type = "reboot" ->
           [ success |-> (out = "ok") /\ succ, brk |-> out # "ok" ]
      [] type = "wlm_setup" ->
           IF out = "no_config"
           THEN [ success |-> FALSE, brk |-> TRUE ]
           ELSE [ success |-> (out = "ok") /\ succ,
                  brk     |-> ~((out = "ok") /\ succ) ]
      [] OTHER ->
           [ success |-> succ, brk |-> FALSE ]

\* entry up to the head of the for loop
LoopEnter ==
    /\ pc = "features"
    /\ apc = "entry"
    /\ success' = TRUE
    /\ ran' = << >>
    /\ lastOut' = NoOutcome
    /\ startIdx' = _load(file).post_install_action_index
    /\ IF Len(actions) = 0
       THEN /\ apc' = "returned"
            /\ i' = 0
            /\ UNCHANGED << pc, storeVars >>
       ELSE /\ i' = idx(data)
            /\ apc' = IF idx(data) < Len(actions) THEN "persist" ELSE "returned"
            /\ LET kv == [ post_install_action_total |-> Len(actions) ]
               IN  _save(set(data, kv), kv, "features")
    /\ UNCHANGED << actions, qres, mainVars, bootVars >>

\* variant: the index of the next action is recorded before the dispatch
InProgress_m(n, act) ==
    [ post_install_action_index |-> n + 1, post_install_action |-> act ]

\* the kwargs recorded before actions[n] is dispatched
InProgress(n, act) ==
    [ post_install_action_index |-> n, post_install_action |-> act ]

\* progress.set(post_install_action_index=i, post_install_action=act)
LoopPersist ==
    /\ pc = "features"
    /\ apc = "persist"
    /\ LET kv == InProgress(i, actions[i + 1])
       IN  _save(set(data, kv), kv, "features")
    /\ apc' = "dispatch"
    /\ UNCHANGED << actions, i, success, ran, startIdx, lastOut, qres,
                    mainVars, bootVars >>

\* the if/elif chain for actions[i]
LoopDispatch ==
    /\ pc = "features"
    /\ apc = "dispatch"
    /\ ran' = Append(ran, i)
    /\ \E cmd \in RebootCmd, polls \in [ 1..MaxPolls -> PollResults ],
          o \in Outcomes(actions[i + 1]) :
          LET type == actions[i + 1]
              out  == IF type = "reboot"
                      THEN IF _managed_reboot(cmd, polls) THEN "ok" ELSE "timeout"
                      ELSE o
              r    == Dispatch(type, out, success)
          IN  /\ type = "reboot" => o = "ok"
              /\ type # "reboot" => (cmd = "ok" /\ polls = [ k \in 1..MaxPolls |-> "ok" ])
              /\ lastOut' = [ type |-> type, out |-> out,
                              cmd  |-> IF type = "reboot" THEN cmd ELSE None,
                              back |-> type = "reboot" /\ PollsReachable(polls) ]
              /\ IF out = "raise"
                 THEN /\ apc' = "raised"
                      /\ UNCHANGED success
                 ELSE /\ success' = r.success
                      /\ apc' = IF r.brk THEN "returned" ELSE "advance"
    /\ UNCHANGED << pc, storeVars, actions, i, startIdx, qres, mainVars, bootVars >>

\* progress.set(post_install_action_index=i + 1) and the next turn of the loop
LoopAdvance ==
    /\ pc = "features"
    /\ apc = "advance"
    /\ LET kv == [ post_install_action_index |-> i + 1 ]
       IN  _save(set(data, kv), kv, "features")
    /\ i' = i + 1
    /\ apc' = IF i + 1 < Len(actions) THEN "persist" ELSE "returned"
    /\ lastOut' = NoOutcome
    /\ UNCHANGED << actions, success, ran, startIdx, qres, mainVars, bootVars >>

LoopStep == LoopEnter \/ LoopPersist \/ LoopDispatch \/ LoopAdvance

-----------------------------------------------------------------------------
(* SpecActions: run_post_install_features called, killed and called again   *)
(* over one action list and one checkpoint artifact                         *)

\* the process dies somewhere between two statements of the loop
LoopKill ==
    /\ pc = "features"
    /\ apc \in { "persist", "dispatch", "advance" }
    /\ pc' = "killed"
    /\ data' = EmptyRec
    /\ prevEnd' = apc
    /\ UNCHANGED << file, wpost, lastSet, qres, loopVars, bootVars, rc, args,
                    cloudinit_success, startLast, fxRun, firstDone, fresh >>

\* a later process loads the checkpoint and calls the function again
LoopRestart ==
    /\ \/ pc = "killed"
       \/ pc = "features" /\ apc \in { "returned", "raised" }
    /\ pc' = "features"
    /\ data' = _load(file)
    /\ apc' = "entry"
    /\ prevEnd' = IF pc = "killed" THEN prevEnd ELSE apc
    /\ UNCHANGED << file, wpost, lastSet, qres, actions, i, success, ran,
                    startIdx, lastOut, bootVars, rc, args, cloudinit_success,
                    startLast, fxRun, firstDone, fresh >>

ActionsInit ==
    /\ StoreInit
    /\ pc = "features"
    /\ qres = NoQuery
    /\ MainIdle /\ BootIdle
    /\ actions \in ActionLists
    /\ i = 0
    /\ success = TRUE
    /\ apc = "entry"
    /\ ran = << >>
    /\ startIdx = NoInt
    /\ lastOut = NoOutcome

ActionsNext ==
    \/ LoopEnter
    \/ LoopPersist
    \/ LoopDispatch
    \/ LoopAdvance
    \/ LoopKill
    \/ LoopRestart

SpecActions == ActionsInit /\ [][ActionsNext]_vars

-----------------------------------------------------------------------------
(* configure_node_passwords: the SSH password bootstrap *)

ProbeAttempts == 30

\* texts a tool can leave in stdout or stderr, one per stream
Phrases == { "", "SETUP_COMPLETE", "Current password:", "New password:",
             "password expired", "You must change your password",
             "you are required to change", "Permission denied",
             "Detected forced password-change prompt" }

\* str.lower() on the texts above
Lower(p) ==
    CASE p = "Current password:"             -> "current password:"
      [] p = "New password:"                 -> "new password:"
      [] p = "You must change your password" -> "you must change your password"
      [] p = "Permission denied"             -> "permission denied"
      [] p = "SETUP_COMPLETE"                -> "setup_complete"
      [] p = "Detected forced password-change prompt"
                                             -> "detected forced password-change prompt"
      [] OTHER                               -> p

\* needle in text (substring test) on the texts above
Contains(text, needle) ==
    \/ text = needle
    \/ text = "current password:" /\ needle = "current password"
    \/ text = "new password:" /\ needle = "new password"
    \/ text = "you must change your password" /\ needle = "must change"
    \/ text = "detected forced password-change prompt" /\ needle = "password-change"

Signatures == { "current password", "new password", "password expired",
                "must change", "you are required to change" }

\* variant: only stdout is searched for the signatures
ForcedChangeDetected_m(stdout, stderr) ==
    \E s \in Signatures : Contains(Lower(stdout), s)

\* any(s in combined.lower() for s in [...]) with combined = stdout + "\n" + stderr
ForcedChangeDetected(stdout, stderr) ==
    \E s \in Signatures :
        Contains(Lower(stdout), s) \/ Contains(Lower(stderr), s)

\* what subprocess.run of a bootstrap tool can produce: an exception, or an
\* exit status with the captured streams
Excs == { None, "timeout", "fnf", "error" }

SshpassRuns ==
    { r \in [ exc : Excs, returncode : { 0 },
              stdout : { "", "SETUP_COMPLETE", "New password:", "password expired",
                         "Permission denied" },
              stderr : { "", "Permission denied", "Current password:",
                         "You must change your password",
                         "you are required to change" } ] :
        r.exc # None => (r.stdout = "" /\ r.stderr = "") }

ExpectRuns ==
    { r \in [ exc : Excs, returncode : { 0, 1, 2, 3 },
              stdout : { "", "SETUP_COMPLETE",
                         "Detected forced password-change prompt" },
              stderr : { "" } ] :
        r.exc # None => (r.returncode = 0 /\ r.stdout = "") }

\* variant: the except clauses leave the label as it was initialised
ExcLabel_m(exc) == "ssh-unknown"

\* the label an exception leaves in details (the except clauses)
ExcLabel(exc) ==
    CASE exc = "fnf"     -> "ssh-tool-missing"
      [] exc = "timeout" -> "ssh-timeout"
      [] OTHER           -> "ssh-error"

\* how the readiness probe loop can end: an attempt answered, all
\* ProbeAttempts attempts failed, or an attempt raised
ProbeEnds == { "ready", "not_ready", "timeout", "error" }

Ret(ok, d) == [ ret |-> TRUE, ok |-> ok, details |-> d ]
Fall(d)    == [ ret |-> FALSE, ok |-> FALSE, details |-> d ]

\* variant: every sshpass attempt hands over to the expect branch
SshpassPhase_m(d0, r) ==
    Fall([ d0 EXCEPT !.bootstrap_tool = "sshpass", !.password_change_prompt = "True" ])

\* the sshpass branch: details["bootstrap_tool"] = "sshpass" up to the end of
\* the branch; ret = FALSE when control falls through to the expect branch
SshpassPhase(d0, r) ==
    LET d == [ d0 EXCEPT !.bootstrap_tool = "sshpass" ]
    IN  IF r.exc # None
        THEN Ret(FALSE, [ d EXCEPT !.bootstrap_method = ExcLabel(r.exc) ])
        ELSE IF Contains(r.stdout, "SETUP_COMPLETE")
        THEN Ret(TRUE, [ d EXCEPT !.password_change_prompt = "False",
                                  !.bootstrap_method = "ssh-sshpass-no-pwchange" ])
        ELSE IF ForcedChangeDetected(r.stdout, r.stderr)
        THEN Fall([ d EXCEPT !.password_change_prompt = "True" ])
        ELSE Ret(FALSE, [ d EXCEPT !.bootstrap_method = "ssh-sshpass-failed" ])

\* variant: every tool is taken to be installed
_command_exists_m(e, cmd) == TRUE

\* _command_exists: "which cmd" exits 0; False when which itself cannot be run
_command_exists(e, cmd) == e.which /\ e[cmd]

\* variant: every expect success is labelled as a password change
PwChangeLabel_m(saw_pwchange) == "ssh-expect-pwchange"

\* "ssh-expect-pwchange" if saw_pwchange else "ssh-expect-no-pwchange"
PwChangeLabel(saw_pwchange) ==
    IF saw_pwchange THEN "ssh-expect-pwchange" ELSE "ssh-expect-no-pwchange"

\* variant: the expect branch gives up at once and leaves bootstrap_tool alone
ExpectPhase_m(d0, e, r) ==
    Ret(FALSE, [ d0 EXCEPT !.bootstrap_method = "ssh-expect-missing" ])

\* the expect branch
ExpectPhase(d0, e, r) ==
    LET d == [ d0 EXCEPT !.bootstrap_tool = "expect" ]
    IN  IF ~_command_exists(e, "expect")
        THEN Ret(FALSE, [ d EXCEPT !.bootstrap_method = "ssh-expect-missing" ])
        ELSE IF r.exc # None
        THEN Ret(FALSE, [ d EXCEPT !.bootstrap_method = ExcLabel(r.exc) ])
        ELSE IF r.returncode = 0 \/ Contains(r.stdout, "SETUP_COMPLETE")
        THEN LET saw_pwchange ==
                   Contains(r.stdout, "Detected forced password-change prompt")
             IN  Ret(TRUE, [ d EXCEPT
                     !.password_change_prompt = IF saw_pwchange THEN "True" ELSE "False",
                     !.bootstrap_method = PwChangeLabel(saw_pwchange) ])
        ELSE Ret(FALSE, [ d EXCEPT !.bootstrap_method = "ssh-expect-failed" ])

MissingSshInfo == [ bootstrap_tool |-> None, password_change_prompt |-> None,
                    bootstrap_method |-> "ssh-missing-ssh-info" ]
UnknownDetails == [ bootstrap_tool |-> None, password_change_prompt |-> None,
                    bootstrap_method |-> "ssh-unknown" ]

\* the whole call as a function of what the host and the tools answer:
\* e the tools installed, p the end of the probe loop, r1 the sshpass run,
\* r2 the expect run
configure_node_passwords(e, p, r1, r2) ==
    IF ~e.ssh_info THEN Ret(FALSE, MissingSshInfo)
    ELSE IF ~e.which
    THEN Ret(FALSE, [ UnknownDetails EXCEPT !.bootstrap_method = ExcLabel("fnf") ])
    ELSE IF p \in { "timeout", "error" }
    THEN Ret(FALSE, [ UnknownDetails EXCEPT !.bootstrap_method = ExcLabel(p) ])
    ELSE IF e.sshpass
    THEN LET s == SshpassPhase(UnknownDetails, r1)
         IN  IF s.ret THEN s ELSE ExpectPhase(s.details, e, r2)
    ELSE ExpectPhase(UnknownDetails, e, r2)

BootReturn(ok, d) ==
    /\ bok' = ok
    /\ details' = d
    /\ bpc' = "returned"
    /\ attempt' = 0

\* from the call to the head of the probe loop
BootEnter ==
    /\ pc = "bootstrap"
    /\ bpc = "call"
    /\ IF ~env.ssh_info
       THEN /\ BootReturn(FALSE, MissingSshInfo)
            /\ UNCHANGED ready
       ELSE /\ details' = UnknownDetails
            /\ attempt' = 1
            /\ ready' = FALSE
            /\ bpc' = "probe"
            /\ UNCHANGED bok
    /\ bghost' = NoBGhost
    /\ UNCHANGED << pc, env, storeVars, qres, mainVars, loopVars >>

\* one turn of: for attempt in range(1, 31).  The loop variable is not read
\* after the loop and is put back to 0 when the loop is left.
BootProbe ==
    /\ pc = "bootstrap"
    /\ bpc = "probe"
    /\ IF ~env.which
       THEN /\ BootReturn(FALSE, [ details EXCEPT !.bootstrap_method = ExcLabel("fnf") ])
            /\ UNCHANGED << ready, bghost >>
       ELSE \E pr \in IF env.sshpass THEN { "ok", "refused", "timeout", "error" }
                      ELSE { "ok", "refused" } :
              IF pr \in { "timeout", "error" }
              THEN /\ BootReturn(FALSE, [ details EXCEPT
                                            !.bootstrap_method = ExcLabel(pr) ])
                   /\ bghost' = [ bghost EXCEPT !.probe_end = pr ]
                   /\ UNCHANGED ready
              ELSE LET leave == pr = "ok" \/ attempt = ProbeAttempts
                   IN  /\ ready' = (pr = "ok")
                       /\ attempt' = IF leave THEN 0 ELSE attempt + 1
                       /\ bpc' = IF leave THEN "tool" ELSE "probe"
                       /\ bghost' = IF leave
                                    THEN [ bghost EXCEPT !.probe_end =
                                             IF pr = "ok" THEN "ready" ELSE "not_ready" ]
                                    ELSE bghost
                       /\ UNCHANGED << bok, details >>
    /\ UNCHANGED << pc, env, storeVars, qres, mainVars, loopVars >>

\* the sshpass attempt, when sshpass is installed
BootSshpass ==
    /\ pc = "bootstrap"
    /\ bpc = "tool"
    /\ env.sshpass
    /\ \E r \in SshpassRuns :
         LET s == SshpassPhase(details, r)
         IN  /\ bghost' = [ bghost EXCEPT !.sshpass_runs = @ + 1, !.sshpass_out = r ]
             /\ IF s.ret
                THEN BootReturn(s.ok, s.details)
                ELSE /\ details' = s.details
                     /\ bpc' = "expect"
                     /\ UNCHANGED << bok, attempt >>
    /\ UNCHANGED << pc, env, ready, storeVars, qres, mainVars, loopVars >>

\* sshpass is not installed: straight to the expect branch
BootNoSshpass ==
    /\ pc = "bootstrap"
    /\ bpc = "tool"
    /\ ~env.sshpass
    /\ bpc' = "expect"
    /\ UNCHANGED << pc, env, attempt, ready, details, bok, bghost, storeVars,
                    qres, mainVars, loopVars >>

\* the expect branch
BootExpect ==
    /\ pc = "bootstrap"
    /\ bpc = "expect"
    /\ IF ~_command_exists(env, "expect")
       THEN /\ BootReturn(FALSE, ExpectPhase(details, env, NoRun).details)
            /\ UNCHANGED bghost
       ELSE \E r \in ExpectRuns :
              LET s == ExpectPhase(details, env, r)
              IN  /\ bghost' = [ bghost EXCEPT !.expect_runs = @ + 1, !.expect_out = r ]
                  /\ BootReturn(s.ok, s.details)
    /\ UNCHANGED << pc, env, ready, storeVars, qres, mainVars, loopVars >>

BootStep == BootEnter \/ BootProbe \/ BootSshpass \/ BootNoSshpass \/ BootExpect

-----------------------------------------------------------------------------
(* SpecBoot: one call of configure_node_passwords on every control host     *)

Envs == { e \in [ ssh_info : BOOLEAN, which : BOOLEAN, sshpass : BOOLEAN,
                  expect : BOOLEAN ] :
            ~e.which => (~e.sshpass /\ ~e.expect) }

BootInit ==
    /\ StoreInit
    /\ pc = "bootstrap"
    /\ qres = NoQuery
    /\ MainIdle /\ LoopIdle
    /\ bpc = "call"
    /\ env \in Envs
    /\ attempt = 0
    /\ ready = FALSE
    /\ details = NoDetails
    /\ bok = FALSE
    /\ bghost = NoBGhost

BootNext ==
    \/ BootEnter
    \/ BootProbe
    \/ BootSshpass
    \/ BootNoSshpass
    \/ BootExpect

SpecBoot == BootInit /\ [][BootNext]_vars

-----------------------------------------------------------------------------
(* _resolve_versioned_value: a features.yaml value that is a plain string   *)
(* or a dict keyed by BCM major version                                     *)

Entries    == { "a.xml", "b.xml" }
StringKeys == { "10", "11" }
IntKeys    == { 10, 11 }
Majors     == { "10", "11", "9", "latest" }

\* a value: None, a string, or a dict with its string keys and its int keys
Str(t) == [ kind |-> "str", s |-> t, skeys |-> NoKv, ikeys |-> NoKv ]
Dict(f, g) == [ kind |-> "dict", s |-> None, skeys |-> f, ikeys |-> g ]
NoneValue == [ kind |-> "none", s |-> None, skeys |-> NoKv, ikeys |-> NoKv ]

Values ==
    { NoneValue } \cup { Str(t) : t \in Entries } \cup
    { Dict(f, g) : f \in UNION { [ D -> Entries ] : D \in SUBSET StringKeys },
                   g \in UNION { [ D -> Entries ] : D \in SUBSET IntKeys } }

\* int(bcm_major); NoInt stands for the ValueError
ParseInt(m) ==
    CASE m = "9"  -> 9
      [] m = "10" -> 10
      [] m = "11" -> 11
      [] OTHER    -> NoInt

_resolve_versioned_value(value, bcm_major) ==
    IF value.kind = "dict"
    THEN IF bcm_major \in DOMAIN value.skeys
         THEN Str(value.skeys[bcm_major])
         ELSE IF ParseInt(bcm_major) # NoInt
                 /\ ParseInt(bcm_major) \in DOMAIN value.ikeys
         THEN Str(value.ikeys[ParseInt(bcm_major)])
         ELSE value
    ELSE value

\* one call
Resolve ==
    /\ pc \in { "resolve", "resolved" }
    /\ pc' = "resolved"
    /\ \E value \in Values, bcm_major \in Majors :
         qres' = [ value |-> value, major |-> bcm_major,
                   result |-> _resolve_versioned_value(value, bcm_major) ]
    /\ UNCHANGED << storeVars, mainVars, loopVars, bootVars >>

ResolveInit ==
    /\ StoreInit
    /\ pc = "resolve"
    /\ qres = NoQuery
    /\ MainIdle /\ LoopIdle /\ BootIdle

ResolveNext == Resolve

SpecResolve == ResolveInit /\ [][ResolveNext]_vars

-----------------------------------------------------------------------------
(* run_post_install_features: building the action list from features.yaml   *)

FeatureNames == { "bcm_switches", "wlm" }

\* values the config_file key holds in the inputs
ConfigValues == { NoneValue, Str("a.xml"), Dict([ k \in { "10" } |-> "a.xml" ], NoKv) }

\* one feature entry of features.yaml
Feature(n, en, cf, zs, rb) ==
    [ name |-> n, enabled |-> en, config_file |-> cf, ztp_script |-> zs,
      reboot_after |-> rb ]

\* the feature entries of features.yaml, in the order the file declares them:
\* up to two features of different names
FeatureLists ==
    LET Entries1 == { Feature(n, en, cf, zs, rb) :
                        n \in FeatureNames, en \in BOOLEAN, cf \in ConfigValues,
                        zs \in { NoneValue, Str("b.xml") }, rb \in BOOLEAN }
    IN  { << >> } \cup { << f >> : f \in Entries1 } \cup
        { fs \in [ 1..2 -> Entries1 ] : fs[1].name # fs[2].name }

\* entries of an explicit "actions:" list
ExplicitEntries ==
    { [ type |-> "cmsh", name |-> << "x" >>, script |-> "a.xml" ],
      [ type |-> "reboot", name |-> << "r" >> ] }

\* the "actions" key: absent, a value that is not a list, or a list
ExplicitValues ==
    { [ kind |-> "none", list |-> << >> ], [ kind |-> "str", list |-> << >> ] } \cup
    { [ kind |-> "list", list |-> l ] :
        l \in UNION { [ 1..n -> ExplicitEntries ] : n \in 0..MaxActions } }

\* truth value of a resolved features.yaml value
Truthy(v) ==
    CASE v.kind = "none" -> FALSE
      [] v.kind = "str"  -> v.s # ""
      [] OTHER           -> (DOMAIN v.skeys) \cup (DOMAIN v.ikeys) # {}

\* str(v): a string is itself, anything else its repr
StrOf(v) == IF v.kind = "str" THEN v.s ELSE << "repr", v >>

\* list.insert(k, x): a negative index counts from the end, and an index out
\* of range is clamped
ListInsert(l, k, x) ==
    LET n == Len(l)
        j == IF k < 0 THEN (IF k + n < 0 THEN 0 ELSE k + n)
             ELSE (IF k > n THEN n ELSE k)
    IN  SubSeq(l, 1, j) \o << x >> \o SubSeq(l, j + 1, n)

\* enabled_features: the loop that skips the "actions" key
RECURSIVE enabled_features(_)
enabled_features(fs) ==
    IF fs = << >> THEN << >>
    ELSE (IF Head(fs).enabled THEN << Head(fs) >> ELSE << >>)
         \o enabled_features(Tail(fs))

\* one pass of the loop over enabled_features
FeatureActions(acts, f, bcm_major) ==
    LET config_file == _resolve_versioned_value(f.config_file, bcm_major)
        ztp_script  == _resolve_versioned_value(f.ztp_script, bcm_major)
        a1 == IF Truthy(config_file)
              THEN Append(acts, [ type |-> "cmsh", name |-> << f.name >>,
                                  script |-> StrOf(config_file) ])
              ELSE acts
        a2 == IF f.name = "bcm_switches" /\ Truthy(ztp_script)
              THEN ListInsert(a1, Len(a1) - 1,
                              [ type |-> "upload_ztp", name |-> << f.name >>,
                                path |-> StrOf(ztp_script) ])
              ELSE a1
    IN  IF f.reboot_after
        THEN Append(a2, [ type |-> "reboot", name |-> << f.name, "-reboot" >> ])
        ELSE a2

RECURSIVE DerivedActions(_, _, _)
DerivedActions(acts, fs, bcm_major) ==
    IF fs = << >> THEN acts
    ELSE DerivedActions(FeatureActions(acts, Head(fs), bcm_major), Tail(fs),
                        bcm_major)

\* isinstance(explicit_actions, list)
UseExplicit(explicit_actions) == explicit_actions.kind = "list"

\* the function up to the start of the loop: where it stands and the list
PlanActions(features, explicit_actions, bcm_major) ==
    IF features = << >> /\ explicit_actions.kind = "none"
    THEN [ at |-> "no_features", actions |-> << >> ]
    ELSE IF enabled_features(features) = << >>
    THEN [ at |-> "all_disabled", actions |-> << >> ]
    ELSE LET acts == IF UseExplicit(explicit_actions)
                     THEN explicit_actions.list
                     ELSE DerivedActions(<< >>, enabled_features(features),
                                         bcm_major)
         IN  IF acts = << >>
             THEN [ at |-> "no_actions", actions |-> acts ]
             ELSE [ at |-> "planned", actions |-> acts ]

\* one call, up to the start of the loop
Plan ==
    /\ pc = "plan"
    /\ apc = "entry"
    /\ LET r == PlanActions(qres.features, qres.explicit, qres.major)
       IN  /\ apc' = r.at
           /\ actions' = r.actions
    /\ UNCHANGED << storeVars, mainVars, bootVars, pc, qres, i, success, ran,
                    startIdx, lastOut >>

PlanInit ==
    /\ StoreInit
    /\ pc = "plan"
    /\ qres \in [ features : FeatureLists, explicit : ExplicitValues,
                  major : { "10", "11" } ]
    /\ MainIdle /\ BootIdle
    /\ actions = << >>
    /\ i = 0
    /\ success = TRUE
    /\ apc = "entry"
    /\ ran = << >>
    /\ startIdx = NoInt
    /\ lastOut = NoOutcome

PlanNext == Plan

SpecPlan == PlanInit /\ [][PlanNext]_vars

-----------------------------------------------------------------------------
(* main: the step sequence *)

ArgSets == [ resume : BOOLEAN, clear_progress : BOOLEAN, sim_id : BOOLEAN,
             skip_ansible : BOOLEAN, skip_cloud_init : BOOLEAN ]

SimStates == { None, "NEW", "LOADED", "RUNNING" }

\* args.resume and progress.is_step_completed(step)
Skip(step) == args.resume /\ is_step_completed(data, step)

\* the three ways a step block is left
Goto(next) ==
    /\ pc' = next
    /\ lastSet' = NoKv
    /\ UNCHANGED << file, data, wpost, rc, firstDone >>

Return(code) ==
    /\ pc' = "done"
    /\ rc' = code
    /\ lastSet' = NoKv
    /\ UNCHANGED << file, data, wpost, firstDone >>

Done(d, kv, step, next) ==
    /\ _save(d, kv, next)
    /\ firstDone' = IF firstDone = None THEN step ELSE firstDone
    /\ UNCHANGED rc

RunKeep == UNCHANGED << args, startLast, prevEnd, fresh >>

\* sim_id, skip_cloud_init and clear_progress are read for the last time in
\* the simulation_loaded block; from there on they hold their defaults, so
\* that states differing only in a flag nothing reads any more coincide
Forget(a) == [ a EXCEPT !.sim_id = FALSE, !.skip_cloud_init = FALSE,
                        !.clear_progress = FALSE ]
Running == { "version", "password", "name", "validate", "create", "cloudinit",
             "startsim", "loaded", "loadfail", "rerun", "sshsvc", "node", "sshcfg",
             "bootstrap", "install", "features", "complete", "cleanup" }
SubKeep == UNCHANGED << qres, loopVars, bootVars >>

\* the local variables of a process that has not started its steps
LocalsReset ==
    /\ cloudinit_success' = FALSE
    /\ fxRun' = {}
    /\ firstDone' = None
    /\ actions' = << >>
    /\ i' = 0
    /\ success' = TRUE
    /\ apc' = "idle"
    /\ ran' = << >>
    /\ startIdx' = NoInt
    /\ lastOut' = NoOutcome
    /\ bpc' = "idle"
    /\ details' = NoDetails
    /\ bok' = FALSE
    /\ UNCHANGED << qres, env, attempt, ready, bghost >>

\* a process starts: ProgressTracker(), --clear-progress, the deployer
NewRun ==
    /\ pc \in { "idle", "done", "killed" }
    /\ \E a \in ArgSets, auth \in BOOLEAN :
         LET loaded == _load(file)
             d      == IF a.clear_progress THEN clear(loaded) ELSE loaded
         IN  /\ args' = a
             /\ data' = d
             /\ file' = IF a.clear_progress THEN NoFile ELSE file
             /\ startLast' = get_last_step(d)
             /\ fresh' = IF a.clear_progress
                         THEN IF loaded = EmptyRec THEN "cleared" ELSE "wiped"
                         ELSE prevEnd
             /\ IF a.clear_progress /\ ~a.resume
                THEN /\ pc' = "done"
                     /\ rc' = 0
                     /\ prevEnd' = IF loaded = EmptyRec /\ prevEnd # "wiped"
                                   THEN "cleared" ELSE "wiped"
                ELSE /\ pc' = IF auth THEN "version" ELSE "done"
                     /\ rc' = IF auth THEN "none" ELSE 1
                     /\ prevEnd' = "no"
    /\ wpost' = EmptyRec
    /\ lastSet' = NoKv
    /\ LocalsReset

StepVersion ==
    /\ pc = "version"
    /\ IF Skip("bcm_version_selected")
       THEN Goto("password")
       ELSE \E bcm_version \in { None, "10" } :
              IF bcm_version = None
              THEN Return(1)
              ELSE Done(complete_step(data, "bcm_version_selected", NoKv), NoKv,
                        "bcm_version_selected", "password")
    /\ UNCHANGED << cloudinit_success, fxRun >>
    /\ RunKeep /\ SubKeep

StepPassword ==
    /\ pc = "password"
    /\ IF Skip("password_configured")
       THEN Goto("name")
       ELSE Done(complete_step(data, "password_configured", NoKv), NoKv,
                 "password_configured", "name")
    /\ UNCHANGED << cloudinit_success, fxRun >>
    /\ RunKeep /\ SubKeep

StepName ==
    /\ pc = "name"
    /\ IF Skip("simulation_name_set")
       THEN Goto("validate")
       ELSE Done(complete_step(data, "simulation_name_set", NoKv), NoKv,
                 "simulation_name_set", "validate")
    /\ UNCHANGED << cloudinit_success, fxRun >>
    /\ RunKeep /\ SubKeep

\* topology path resolution and the checks of --primary / --secondary
StepValidate ==
    /\ pc = "validate"
    /\ \E topology_found \in BOOLEAN, primary \in BOOLEAN, secondary \in BOOLEAN :
         IF ~topology_found /\ ~args.sim_id
         THEN Return(1)
         ELSE IF \/ secondary /\ ~args.sim_id
                 \/ primary /\ ~args.sim_id
                 \/ primary /\ secondary
         THEN Return(2)
         ELSE Goto("create")
    /\ UNCHANGED << cloudinit_success, fxRun >>
    /\ RunKeep /\ SubKeep

StepCreate ==
    /\ pc = "create"
    /\ IF Skip("simulation_created")
       THEN /\ Goto("cloudinit")
            /\ UNCHANGED fxRun
       ELSE \E outcome \in { "ok", "usage", "raise" } :
              /\ ~args.sim_id => outcome # "usage"
              /\ fxRun' = fxRun \cup
                     (IF args.sim_id THEN { "ensure_userconfig" }
                      ELSE { "ensure_userconfig", "create_simulation" })
              /\ CASE outcome = "usage" -> Return(2)
                   [] outcome = "raise" -> Return(1)
                   [] OTHER ->
                        LET kv == [ simulation_id |-> "sim" ]
                        IN  Done(complete_step(data, "simulation_created", kv), kv,
                                 "simulation_created", "cloudinit")
    /\ UNCHANGED cloudinit_success
    /\ RunKeep /\ SubKeep

StepCloudinit ==
    /\ pc = "cloudinit"
    /\ IF Skip("cloudinit_configured")
       THEN /\ cloudinit_success' = (data.cloudinit_success = "True")
            /\ Goto("startsim")
            /\ UNCHANGED fxRun
       ELSE \E assigned \in BOOLEAN, state \in SimStates :
              LET cs0 == ~args.skip_cloud_init /\ assigned
                  cs  == IF /\ args.sim_id
                            /\ state \in { "LOADED", "RUNNING" }
                            /\ cs0
                            /\ ~args.skip_cloud_init
                         THEN FALSE ELSE cs0
                  kv  == [ cloudinit_success |-> IF cs THEN "True" ELSE "False" ]
              IN  /\ args.skip_cloud_init => ~assigned
                  /\ ~args.sim_id => state = "NEW"
                  /\ fxRun' = fxRun \cup
                         (IF args.skip_cloud_init THEN {} ELSE { "cloudinit_assign" }) \cup
                         (IF assigned THEN { "cloudinit_ok" } ELSE {})
                  /\ cloudinit_success' = cs
                  /\ Done(complete_step(data, "cloudinit_configured", kv), kv,
                          "cloudinit_configured", "startsim")
    /\ RunKeep /\ SubKeep

StepStart ==
    /\ pc = "startsim"
    /\ IF Skip("simulation_started")
       THEN /\ Goto("loaded")
            /\ UNCHANGED fxRun
       ELSE \E state \in SimStates :
              LET kv == [ simulation_state_before_start |-> state ]
                  d0 == set(data, kv)
              IN  /\ ~args.sim_id => state \in { None, "NEW" }
                  /\ IF args.sim_id /\ state \in { "LOADED", "RUNNING" }
                     THEN /\ Done(complete_step(
                                     complete_step(d0, "simulation_started", NoKv),
                                     "simulation_loaded", NoKv), NoKv,
                                  "simulation_started", "loaded")
                          /\ UNCHANGED fxRun
                     ELSE /\ fxRun' = fxRun \cup { "start_simulation" }
                          /\ Done(complete_step(d0, "simulation_started", NoKv),
                                  NoKv, "simulation_started", "loaded")
    /\ UNCHANGED cloudinit_success
    /\ RunKeep /\ SubKeep

\* variant: a wait that gives up returns without the diagnostics dump
wait_for_simulation_loaded_m(is_loaded) ==
    [ loaded |-> is_loaded, fx |-> {} ]

\* wait_for_simulation_loaded: True at LOADED; at ERROR/FAILED and at the
\* timeout the failure diagnostics are dumped before False is returned
wait_for_simulation_loaded(is_loaded) ==
    [ loaded |-> is_loaded,
      fx     |-> IF is_loaded THEN {} ELSE { "diagnostics" } ]

\* the simulation_loaded step block up to the return of the wait
StepLoaded ==
    /\ pc = "loaded"
    /\ IF Skip("simulation_loaded")
       THEN /\ Goto("sshsvc")
            /\ args' = Forget(args)
            /\ UNCHANGED fxRun
       ELSE \E is_loaded \in BOOLEAN :
              LET w == wait_for_simulation_loaded(is_loaded)
              IN  IF w.loaded
                  THEN /\ Done(complete_step(data, "simulation_loaded", NoKv), NoKv,
                               "simulation_loaded", "sshsvc")
                       /\ args' = Forget(args)
                       /\ UNCHANGED fxRun
                  ELSE /\ fxRun' = fxRun \cup w.fx
                       /\ Goto("loadfail")
                       /\ UNCHANGED args
    /\ UNCHANGED << cloudinit_success, startLast, prevEnd, fresh >>
    /\ SubKeep

\* the simulation did not load: the auto-fallback (delete the simulation,
\* clear the progress, re-run) when cloud-init was used and sshpass or expect
\* is installed, return 1 otherwise
StepLoadFailed ==
    /\ pc = "loadfail"
    /\ \E have_tool \in BOOLEAN :
         IF ~args.skip_cloud_init /\ cloudinit_success /\ have_tool
         THEN /\ fxRun' = fxRun \cup { "delete_simulation" }
              /\ ClearProgress
              /\ pc' = "rerun"
              /\ UNCHANGED << rc, firstDone >>
         ELSE /\ Return(1)
              /\ UNCHANGED fxRun
    /\ UNCHANGED << args, cloudinit_success, startLast, prevEnd, fresh >>
    /\ SubKeep

\* subprocess.run([sys.executable, __file__, *rerun_args]) and return of its
\* status: the child is main again, without --resume and with --skip-cloud-init;
\* of what the run did before, fxRun keeps only that it fell back
Rerun ==
    /\ pc = "rerun"
    /\ LET a      == [ args EXCEPT !.resume = FALSE, !.skip_cloud_init = TRUE ]
           loaded == _load(file)
           d      == IF a.clear_progress THEN clear(loaded) ELSE loaded
       IN  /\ args' = a
           /\ data' = d
           /\ file' = IF a.clear_progress THEN NoFile ELSE file
           /\ startLast' = get_last_step(d)
           /\ fresh' = "wiped"
           /\ IF a.clear_progress
              THEN /\ pc' = "done"
                   /\ rc' = 0
              ELSE \E auth \in BOOLEAN :
                     /\ pc' = IF auth THEN "version" ELSE "done"
                     /\ rc' = IF auth THEN "none" ELSE 1
    /\ cloudinit_success' = FALSE
    /\ fxRun' = { "auto_fallback" }
    /\ firstDone' = None
    /\ UNCHANGED << wpost, lastSet, prevEnd >>
    /\ SubKeep

StepSshService ==
    /\ pc = "sshsvc"
    /\ IF Skip("ssh_enabled")
       THEN /\ Goto("node")
            /\ UNCHANGED fxRun
       ELSE /\ fxRun' = fxRun \cup { "enable_ssh_service" }
            /\ Done(complete_step(data, "ssh_enabled", NoKv), NoKv,
                    "ssh_enabled", "node")
    /\ UNCHANGED cloudinit_success
    /\ RunKeep /\ SubKeep

\* variant: a wait that runs out returns None instead of raising
wait_for_node_ready_m(node_up) ==
    [ raised |-> FALSE, fx |-> IF node_up THEN {} ELSE { "node_timeout" } ]

\* wait_for_node_ready: the node at a ready state, or the Exception raised
\* when the timeout has passed
wait_for_node_ready(node_up) ==
    [ raised |-> ~node_up, fx |-> IF node_up THEN {} ELSE { "node_timeout" } ]

\* the value of the wait is not looked at; its Exception ends main with 1
StepNodeReady ==
    /\ pc = "node"
    /\ IF Skip("node_ready")
       THEN /\ Goto("sshcfg")
            /\ UNCHANGED fxRun
       ELSE \E node_up \in BOOLEAN :
              LET w == wait_for_node_ready(node_up)
              IN  /\ fxRun' = fxRun \cup w.fx
                  /\ IF w.raised
                     THEN Return(1)
                     ELSE Done(complete_step(data, "node_ready", NoKv), NoKv,
                               "node_ready", "sshcfg")
    /\ UNCHANGED cloudinit_success
    /\ RunKeep /\ SubKeep

StepSshConfig ==
    /\ pc = "sshcfg"
    /\ \E ssh_info \in BOOLEAN, ssh_config_file \in BOOLEAN :
         IF ~ssh_info
         THEN /\ Return(1)
              /\ UNCHANGED fxRun
         ELSE IF Skip("ssh_configured")
         THEN /\ Goto("bootstrap")
              /\ UNCHANGED fxRun
         ELSE /\ fxRun' = fxRun \cup { "create_ssh_config" }
              /\ IF ssh_config_file
                 THEN Done(complete_step(data, "ssh_configured", NoKv), NoKv,
                           "ssh_configured", "bootstrap")
                 ELSE Return(1)
    /\ UNCHANGED cloudinit_success
    /\ RunKeep /\ SubKeep

\* every value the call can return when ssh_info is given
BootResults ==
    { configure_node_passwords(e, p, r1, r2) :
        e \in { x \in Envs : x.ssh_info }, p \in ProbeEnds,
        r1 \in SshpassRuns, r2 \in ExpectRuns }

\* variant: the SSH bootstrap is run whatever the cloud-init step reported
UseSshBootstrap_m(cs) == TRUE

\* if not cloudinit_success:
UseSshBootstrap(cs) == ~cs

\* variant: a failed bootstrap ends the run
AfterBootstrap_m(ok) == IF ok THEN "install" ELSE "done"

\* "if not ok:" only prints; the install step follows either way
AfterBootstrap(ok) == "install"

\* if not cloudinit_success: ok, details = configure_node_passwords(ssh_info)
\* and progress.set(bootstrap_method=..., ...) of what it returned, whatever
\* ok is; else the cloud-init bootstrap is recorded
StepBootstrap ==
    /\ pc = "bootstrap"
    /\ IF UseSshBootstrap(cloudinit_success)
       THEN /\ \E res \in BootResults :
               LET kv == [ bootstrap_method |-> res.details.bootstrap_method,
                           bootstrap_tool |-> res.details.bootstrap_tool,
                           bootstrap_password_change_prompt |->
                               res.details.password_change_prompt ]
               IN  _save(set(data, kv), kv, AfterBootstrap(res.ok))
            /\ fxRun' = fxRun \cup { "bootstrap" }
       ELSE /\ LET kv == [ bootstrap_method |-> "cloud-init",
                           bootstrap_tool |-> "cloud-init",
                           bootstrap_password_change_prompt |-> None ]
               IN  _save(set(data, kv), kv, "install")
            /\ UNCHANGED fxRun
    /\ UNCHANGED << rc, firstDone, cloudinit_success >>
    /\ RunKeep /\ SubKeep

StepInstall ==
    /\ pc = "install"
    /\ IF args.skip_ansible \/ Skip("bcm_installed")
       THEN /\ Goto("features")
            /\ UNCHANGED fxRun
       ELSE \E installed \in BOOLEAN :
              /\ fxRun' = fxRun \cup { "install_bcm" }
              /\ IF installed
                 THEN Done(complete_step(data, "bcm_installed", NoKv), NoKv,
                           "bcm_installed", "features")
                 ELSE Return(1)
    /\ UNCHANGED cloudinit_success
    /\ RunKeep /\ SubKeep

\* the post-install block up to the call of run_post_install_features;
\* load_topology_features reads features.yaml anew in every call
StepFeatures ==
    /\ pc = "features"
    /\ apc = "idle"
    /\ IF args.skip_ansible \/ Skip("features_configured")
       THEN /\ pc' = "complete"
            /\ UNCHANGED apc
            /\ UNCHANGED actions
       ELSE /\ apc' = "entry"
            /\ actions' \in MainActionLists
            /\ UNCHANGED pc
    /\ lastSet' = NoKv
    /\ UNCHANGED << file, data, wpost, rc, firstDone, cloudinit_success, fxRun,
                    qres, i, success, ran, startIdx, lastOut, bootVars >>
    /\ RunKeep

\* the action the loop stopped at failed by itself: a script that could not
\* be copied or did not exit 0, or a reboot the host did not come back from
FatalOutcome(o) ==
    \/ o.type = "cmsh" /\ o.out \in { "scp_fail", "nonzero" }
    \/ o.type = "reboot" /\ o.out = "timeout"

\* the call has returned (its value is not looked at), or it has raised; the
\* locals of the call go, fxRun keeps what the call did
FeaturesReturn ==
    /\ pc = "features"
    /\ apc \in { "returned", "raised" }
    /\ apc' = "left"
    /\ IF apc = "raised"
       THEN /\ Return(1)
            /\ UNCHANGED fxRun
       ELSE /\ Done(complete_step(data, "features_configured", NoKv), NoKv,
                    "features_configured", "complete")
            /\ fxRun' = fxRun \cup
                   (IF ran # << >> THEN { "post_install_action" } ELSE {}) \cup
                   (IF FatalOutcome(lastOut) THEN { "fatal_action_failure" } ELSE {})
    /\ actions' = << >>
    /\ i' = 0
    /\ success' = TRUE
    /\ ran' = << >>
    /\ startIdx' = NoInt
    /\ lastOut' = NoOutcome
    /\ UNCHANGED << cloudinit_success, qres, bootVars >>
    /\ RunKeep

StepComplete ==
    /\ pc = "complete"
    /\ Done(complete_step(data, "completed", NoKv), NoKv, "completed", "cleanup")
    /\ UNCHANGED << cloudinit_success, fxRun >>
    /\ RunKeep /\ SubKeep

\* the summary and the question whether to clear the progress file
StepCleanup ==
    /\ pc = "cleanup"
    /\ \E non_interactive \in BOOLEAN, keep_progress \in BOOLEAN,
          response \in { "", "y", "yes", "n" } :
         IF \/ non_interactive /\ ~keep_progress
            \/ ~non_interactive /\ response \in { "", "y", "yes" }
         THEN ClearProgress
         ELSE /\ lastSet' = NoKv
              /\ UNCHANGED << file, data, wpost >>
    /\ pc' = "done"
    /\ rc' = 0
    /\ UNCHANGED << firstDone, cloudinit_success, fxRun >>
    /\ RunKeep /\ SubKeep

\* except KeyboardInterrupt: return 130; the process ends and its locals go
Interrupt ==
    /\ pc \in Running
    /\ pc' = "done"
    /\ rc' = 130
    /\ args' = NoArgs
    /\ startLast' = None
    /\ lastSet' = NoKv
    /\ LocalsReset
    /\ UNCHANGED << file, data, wpost, prevEnd, fresh >>

\* the process is killed (or the host goes down) between two statements
Kill ==
    /\ pc \in Running
    /\ pc' = "killed"
    /\ data' = EmptyRec
    /\ args' = NoArgs
    /\ startLast' = None
    /\ lastSet' = NoKv
    /\ LocalsReset
    /\ UNCHANGED << file, wpost, rc, prevEnd, fresh >>

MainInit ==
    /\ StoreInit
    /\ pc = "idle"
    /\ qres = NoQuery
    /\ MainIdle /\ BootIdle /\ LoopIdle

Next ==
    \/ NewRun
    \/ StepVersion
    \/ StepPassword
    \/ StepName
    \/ StepValidate
    \/ StepCreate
    \/ StepCloudinit
    \/ StepStart
    \/ StepLoaded
    \/ StepLoadFailed
    \/ Rerun
    \/ StepSshService
    \/ StepNodeReady
    \/ StepSshConfig
    \/ StepBootstrap
    \/ StepInstall
    \/ StepFeatures
    \/ LoopEnter
    \/ LoopPersist
    \/ LoopDispatch
    \/ LoopAdvance
    \/ FeaturesReturn
    \/ StepComplete
    \/ StepCleanup
    \/ Interrupt
    \/ Kill

Spec == MainInit /\ [][Next]_vars

-----------------------------------------------------------------------------
(* Properties *)

\* the step whose block performs a side effect
StepOf ==
    [ ensure_userconfig   |-> "simulation_created",
      create_simulation   |-> "simulation_created",
      cloudinit_assign    |-> "cloudinit_configured",
      start_simulation    |-> "simulation_started",
      delete_simulation   |-> "simulation_loaded",
      enable_ssh_service  |-> "ssh_enabled",
      create_ssh_config   |-> "ssh_configured",
      bootstrap           |-> "bcm_installed",
      install_bcm         |-> "bcm_installed",
      post_install_action |-> "features_configured" ]

\* C1: a run with --resume over a checkpoint whose last_step closes the
\* prefix P performs no side effect of a step in P, and the first step it
\* completes lies after P.
C1_IdempotentResume ==
    (args.resume /\ startLast # None) =>
        /\ \A e \in fxRun \cap DOMAIN StepOf :
              get_step_index(StepOf[e]) > get_step_index(startLast)
        /\ firstDone # None =>
              get_step_index(firstDone) > get_step_index(startLast)

\* C2: a complete_step call that returns never lowers the STEPS index of
\* last_step.
C2_MonotonicCheckpoint ==
    [][ (pc = "api" /\ pc' = "api" /\ file'.st = "ok") =>
            get_step_index(get_last_step(data')) >=
                get_step_index(get_last_step(data)) ]_vars

\* C3: is_step_completed(step) is true iff last_step is set, step is a member
\* of STEPS and its index is at most that of last_step.
C3_IsStepCompleted ==
    qres.step # None =>
        (qres.result <=>
            /\ qres.last # None
            /\ qres.step \in StepNames
            /\ get_step_index(qres.step) <= get_step_index(qres.last))

\* C4: a call of run_post_install_features that finds post_install_action_index
\* persisted as k >= 1 dispatches none of the actions 0..k-1, and the first
\* action it dispatches is action k.
C4_ActionListResumability ==
    (pc = "features" /\ apc \notin { "idle", "entry" } /\ startIdx >= 1) =>
        /\ \A n \in DOMAIN ran : ran[n] >= startIdx
        /\ ran # << >> => ran[1] = startIdx

\* the loop was killed right after it persisted the index of the next action,
\* and the restarted call has dispatched that action
C4_Witness ==
    /\ pc = "features"
    /\ prevEnd = "persist"
    /\ startIdx >= 1
    /\ startIdx < Len(actions)
    /\ ran = << startIdx >>

\* C5: after a post-install action has failed fatally neither
\* features_configured nor completed is recorded, the checkpoint is not
\* cleared and main does not return 0.
C5_FatalActionStopsPipeline ==
    "fatal_action_failure" \in fxRun =>
        /\ get_last_step(data) \notin { "features_configured", "completed" }
        /\ file # NoFile
        /\ rc # 0

\* C6: a reboot whose polls never answer stops the loop with failure and
\* leaves the persisted index at the reboot action; a reboot whose polls answer
\* lets the loop go on, whatever the reboot command itself returned.
C6_RebootTimeout ==
    (pc = "features" /\ apc # "entry" /\ lastOut.type = "reboot") =>
        IF lastOut.back
        THEN apc = "advance"
        ELSE /\ apc = "returned"
             /\ ~success
             /\ ran[Len(ran)] = i
             /\ _load(file).post_install_action_index = i

\* a reboot whose command raised and whose polls never answered, with a
\* further action behind it in the list
C6_Witness ==
    /\ pc = "features"
    /\ lastOut.type = "reboot"
    /\ lastOut.cmd = "exc"
    /\ ~lastOut.back
    /\ apc = "returned"
    /\ i + 1 < Len(actions)

\* texts that carry one of the forced-password-change signatures
SignatureTexts == { p \in Phrases : \E s \in Signatures : Contains(Lower(p), s) }

\* the sshpass attempt ran, returned without the completion sentinel, and its
\* output carries a signature; configure_node_passwords has returned
SshpassSawForcedChange ==
    /\ bpc = "returned"
    /\ bghost.sshpass_runs = 1
    /\ bghost.sshpass_out.exc = None
    /\ bghost.sshpass_out.stdout # "SETUP_COMPLETE"
    /\ \/ bghost.sshpass_out.stdout \in SignatureTexts
       \/ bghost.sshpass_out.stderr \in SignatureTexts

ExpectLabels == { "ssh-expect-pwchange", "ssh-expect-no-pwchange",
                  "ssh-expect-failed", "ssh-expect-missing" }

\* C7 as stated: after a forced-password-change signature from sshpass the
\* label is one of the ssh-expect-* labels, whatever the expect attempt does.
C7_AlwaysExpectLabel ==
    SshpassSawForcedChange => details.bootstrap_method \in ExpectLabels

\* C7: after a forced-password-change signature from sshpass the call goes on
\* to the expect branch: bootstrap_tool is "expect", the label is never
\* ssh-sshpass-failed, it is an ssh-expect-* label when expect is missing or
\* ran to an exit status, and the label of the exception when the expect
\* process timed out or could not be run.
C7_FallbackToExpect ==
    SshpassSawForcedChange =>
        /\ details.bootstrap_tool = "expect"
        /\ details.bootstrap_method # "ssh-sshpass-failed"
        /\ IF ~env.expect
           THEN details.bootstrap_method = "ssh-expect-missing"
           ELSE /\ bghost.expect_runs = 1
                /\ IF bghost.expect_out.exc = None
                   THEN details.bootstrap_method \in ExpectLabels
                   ELSE details.bootstrap_method \in
                            { "ssh-timeout", "ssh-tool-missing", "ssh-error" }

\* the signature came on stderr only, and the expect attempt then succeeded
C7_Witness ==
    /\ SshpassSawForcedChange
    /\ bghost.sshpass_out.stdout = ""
    /\ bghost.expect_runs = 1
    /\ details.bootstrap_method = "ssh-expect-pwchange"

C9_CrashSafeStore ==
    [][ (pc = "api" /\ pc' = "killed") =>
            \/ _load(file') = _load(file)
            \/ _load(file') = wpost' ]_vars

\* C10: after progress.clear() the artifact is gone and the record is empty;
\* the run that follows finds no last_step, completes bcm_version_selected
\* first and starts the action loop at action 0.
C10_ClearIsFirstRun ==
    /\ prevEnd \in { "cleared", "wiped" } => (file = NoFile /\ data = EmptyRec)
    /\ (fresh # "no" /\ pc = "version") => (file = NoFile /\ data = EmptyRec)
    /\ (fresh # "no" /\ pc \in Running) =>
          /\ startLast = None
          /\ firstDone \in { None, "bcm_version_selected" }
          /\ apc \notin { "idle", "entry", "left" } => startIdx = NoInt
          /\ ran # << >> => ran[1] = 0

\* --resume --clear-progress over a checkpoint that held progress: the run
\* has gone through the steps again and dispatched the first action
C10_Witness ==
    /\ fresh = "wiped"
    /\ args.resume
    /\ pc = "features"
    /\ ran = << 0 >>

\* C11: resolving a dict gives the entry under the string key equal to the
\* major version, else the entry under its integer key, and always one of the
\* dict's entries; any other value comes back unchanged.
C11_VersionResolution ==
    pc = "resolved" =>
        LET v == qres.value
            m == qres.major
        IN  IF v.kind = "dict"
            THEN /\ m \in DOMAIN v.skeys => qres.result = Str(v.skeys[m])
                 /\ (m \notin DOMAIN v.skeys /\ ParseInt(m) \in DOMAIN v.ikeys) =>
                        qres.result = Str(v.ikeys[ParseInt(m)])
                 /\ qres.result.kind = "str"
            ELSE qres.result = v

\* C12: loading gives the empty checkpoint when there is no artifact and when
\* its content is unreadable or corrupt; it never raises for such an artifact.
C12_LoadSwallowsCorruption ==
    (pc \in { "load_returned", "load_raised" } /\ file.st # "ok") =>
        (pc = "load_returned" /\ data = EmptyRec)

\* C13: a set(**kv) that returns leaves last_step and every key that kv does
\* not name as they were, persists the merged record, and is_step_completed
\* answers after it as it did before it, for every step.
C13_SetFrame ==
    [][ (ApiSet /\ pc' = "api") =>
            /\ data'.last_step = data.last_step
            /\ \A k \in DOMAIN data \ DOMAIN lastSet' : data'[k] = data[k]
            /\ \A k \in DOMAIN data \cap DOMAIN lastSet' : data'[k] = lastSet'[k]
            /\ file' = OkFile(data')
            /\ \A step \in StepNames \cup UnknownSteps :
                   is_step_completed(data', step) = is_step_completed(data, step)
      ]_vars

\* two set calls in a row: the second kept the key the first one wrote, and
\* no step is reported completed afterwards
C13_Witness ==
    /\ pc = "api"
    /\ data.last_step = None
    /\ data.simulation_id = "sim"
    /\ data.cloudinit_success = "True"
    /\ lastSet = [ cloudinit_success |-> "True" ]
    /\ file = OkFile(data)

\* the labels of the bootstrap_method vocabulary, and those of a success
BootstrapLabels ==
    { "cloud-init", "ssh-sshpass-no-pwchange", "ssh-expect-pwchange",
      "ssh-expect-no-pwchange", "ssh-expect-missing", "ssh-sshpass-failed",
      "ssh-expect-failed", "ssh-timeout", "ssh-tool-missing", "ssh-error",
      "ssh-missing-ssh-info", "ssh-unknown" }
SuccessLabels ==
    { "ssh-sshpass-no-pwchange", "ssh-expect-pwchange", "ssh-expect-no-pwchange" }

\* C14: every return of configure_node_passwords carries a label of the
\* vocabulary other than ssh-unknown, the label is the one determined by the
\* tools installed and by how the probe, the sshpass run and the expect run
\* ended, and the call reports success exactly for the three success labels.
C14_LabelContract ==
    bpc = "returned" =>
        /\ details.bootstrap_method \in BootstrapLabels \ { "ssh-unknown" }
        /\ details.bootstrap_method =
               configure_node_passwords(env, bghost.probe_end, bghost.sshpass_out,
                                        bghost.expect_out).details.bootstrap_method
        /\ bok <=> details.bootstrap_method \in SuccessLabels

\* sshpass met the forced password change and the expect run then timed out
C14_Witness ==
    /\ bpc = "returned"
    /\ ~bok
    /\ bghost.sshpass_runs = 1
    /\ bghost.expect_out.exc = "timeout"
    /\ details.bootstrap_method = "ssh-timeout"

\* C15: when configure_node_passwords returns a failure label, main goes on to
\* the install step and the set call it makes carries bootstrap_method,
\* bootstrap_tool and bootstrap_password_change_prompt, leaves last_step as it
\* was and persists the record.
C15_BootstrapFailureNotFatal ==
    [][ (StepBootstrap /\ ~cloudinit_success /\ pc' # "killed"
            /\ lastSet'.bootstrap_method \notin SuccessLabels) =>
            /\ pc' = "install"
            /\ rc' = rc
            /\ DOMAIN lastSet' = { "bootstrap_method", "bootstrap_tool",
                                   "bootstrap_password_change_prompt" }
            /\ lastSet'.bootstrap_method \in BootstrapLabels
            /\ data'.last_step = data.last_step
            /\ file' = OkFile(data')
      ]_vars

\* the expect run failed and main stands before the install step
C15_Witness ==
    /\ pc = "install"
    /\ "bootstrap" \in fxRun
    /\ "bootstrap_method" \in DOMAIN lastSet
    /\ lastSet.bootstrap_method = "ssh-expect-failed"
    /\ lastSet.bootstrap_tool = "expect"
    /\ data.last_step = "ssh_configured"

\* C16: an upload_ztp action that fails is followed by the advance of the
\* index, and the loop never stops at an action that itself succeeded.
C16_UploadFailureNonFatal ==
    (pc = "features" /\ apc # "entry") =>
        /\ (lastOut.type = "upload_ztp" /\ lastOut.out # "raise") => apc = "advance"
        /\ ~(apc = "returned" /\ lastOut.out = "ok")

\* C17: a wlm_setup action whose setup tool exits non-zero is followed by the
\* advance of the index to i + 1.
C17_WlmFailureNonFatal ==
    (pc = "features" /\ apc # "entry"
        /\ lastOut.type = "wlm_setup" /\ lastOut.out = "nonzero") =>
        apc = "advance"

\* C18: a cmsh action without a script, without its local file, whose upload
\* fails or whose remote run exits non-zero ends the call: it is the last
\* action dispatched, the success flag is false and the persisted index is the
\* index of that action.
C18_CmshFailureAborts ==
    (pc = "features" /\ apc # "entry" /\ lastOut.type = "cmsh"
        /\ lastOut.out \in { "no_script", "no_file", "scp_fail", "nonzero" }) =>
        /\ apc = "returned"
        /\ ~success
        /\ ran[Len(ran)] = i
        /\ _load(file).post_install_action_index = i

\* the first of two actions is a cmsh script that exits non-zero
C18_Witness ==
    /\ pc = "features"
    /\ apc = "returned"
    /\ Len(actions) = 2
    /\ lastOut.type = "cmsh"
    /\ lastOut.out = "nonzero"
    /\ ran = << 0 >>
    /\ _load(file).post_install_action_index = 0

\* C19: main ends with status 0, 1, 2 or 130; with 0 only when nothing of the
\* run failed, with 2 only out of the validation of its arguments, and with
\* 130 at an interrupt, which collects no diagnostics, deletes nothing and
\* leaves the checkpoint artifact as it was.
C19_ExitStatus ==
    /\ [](pc = "done" => rc \in { 0, 1, 2, 130 })
    /\ [](pc = "done" /\ rc = 0 => "fatal_action_failure" \notin fxRun)
    /\ [][ (pc' = "done" /\ pc # "done" /\ rc' = 2) =>
             pc \in { "validate", "create" } ]_vars
    /\ [][ Interrupt =>
             /\ rc' = 130
             /\ file' = file
             /\ fxRun' \cap { "diagnostics", "delete_simulation" } = {} ]_vars

\* C20: the step that issues the delete of the simulation is taken only when
\* the failure diagnostics have been dumped before it, and no state has the
\* delete without the dump.
C20_DiagnosticsBeforeDelete ==
    /\ []("delete_simulation" \in fxRun => "diagnostics" \in fxRun)
    /\ [][ ("delete_simulation" \in fxRun' /\ "delete_simulation" \notin fxRun) =>
               "diagnostics" \in fxRun ]_vars

\* the fallback has deleted the simulation and stands before the re-run
C20_Witness ==
    /\ pc = "rerun"
    /\ { "diagnostics", "delete_simulation" } \subseteq fxRun
    /\ file = NoFile

\* C21: from one persisted checkpoint to the next the STEPS index of last_step
\* never goes down; it goes back only when the artifact is removed.
C21_PersistedStepMonotonic ==
    [][ (file.st = "ok" /\ file'.st = "ok") =>
            get_step_index(get_last_step(file'.rec)) >=
                get_step_index(get_last_step(file.rec)) ]_vars

\* C22: when action i is about to be dispatched the artifact holds index i
\* and the set call before it carried the action; a process killed from there
\* up to the persist of i + 1 leaves index i in the artifact, and the call of
\* the next process starts its loop at that same action.
C22_AtLeastOnce ==
    /\ []((pc = "features" /\ apc = "dispatch") =>
             /\ file = OkFile(data)
             /\ _load(file).post_install_action_index = i
             /\ lastSet = [ post_install_action_index |-> i,
                            post_install_action |-> actions[i + 1] ])
    /\ []((pc = "killed" /\ file.st = "ok" /\ prevEnd \in { "dispatch", "advance" }) =>
             _load(file).post_install_action_index = i)
    /\ [][ (LoopEnter /\ pc' # "killed" /\ file.st = "ok"
               /\ prevEnd \in { "dispatch", "advance" }) =>
               (i' = i /\ apc' = "persist") ]_vars

\* the process died after the first of two actions had run and before index 1
\* was persisted; the next process has dispatched the first action again
C22_Witness ==
    /\ pc = "features"
    /\ prevEnd = "advance"
    /\ Len(actions) = 2
    /\ apc = "advance"
    /\ startIdx = 0
    /\ ran = << 0 >>
    /\ i = 0

\* C23: the persisted index is i while action i is pending or running, i + 1
\* once action i has completed and before action i + 1 starts, and i when the
\* loop stopped at action i; and the index a process reads back from the
\* artifact never goes down, in a run and across its re-runs over the same
\* action list.
C23_ActionStateMachine ==
    [][ /\ (pc' = "features" /\ apc' \in { "dispatch", "advance" }) =>
               _load(file').post_install_action_index = i'
        /\ (pc' = "features" /\ apc' = "persist" /\ ran' # << >>) =>
               /\ ran'[Len(ran')] = i' - 1
               /\ _load(file').post_install_action_index = i'
        /\ (pc' = "features" /\ apc' = "returned" /\ lastOut' # NoOutcome) =>
               _load(file').post_install_action_index = i'
        /\ idx(_load(file')) >= idx(_load(file)) ]_vars

\* C24: an sshpass run that returned without the completion sentinel and
\* without a forced-password-change signature on stdout or stderr ends the
\* call: failure, label ssh-sshpass-failed, no expect run, and the
\* password-change flag still None.
C24_SshpassFailsOutright ==
    (pc = "bootstrap" /\ bghost.sshpass_runs = 1
        /\ bghost.sshpass_out.exc = None
        /\ bghost.sshpass_out.stdout # "SETUP_COMPLETE"
        /\ bghost.sshpass_out.stdout \notin SignatureTexts
        /\ bghost.sshpass_out.stderr \notin SignatureTexts) =>
        /\ bpc = "returned"
        /\ ~bok
        /\ details.bootstrap_method = "ssh-sshpass-failed"
        /\ details.bootstrap_tool = "sshpass"
        /\ details.password_change_prompt = None
        /\ bghost.expect_runs = 0

\* sshpass was refused on a host that also has expect installed
C24_Witness ==
    /\ bpc = "returned"
    /\ env.sshpass /\ env.expect
    /\ bghost.sshpass_runs = 1
    /\ bghost.sshpass_out.stdout = "Permission denied"
    /\ bghost.sshpass_out.stderr = "Permission denied"
    /\ bghost.expect_runs = 0
    /\ details.bootstrap_method = "ssh-sshpass-failed"

\* C25: the probe loop makes at most ProbeAttempts attempts, no probe attempt
\* makes configure_node_passwords return, and once the loop is over a
\* credential attempt is made (or expect is found missing) whether or not the
\* endpoint answered.
C25_ProbeBestEffort ==
    /\ attempt <= ProbeAttempts
    /\ (bpc = "returned" /\ env.ssh_info /\ env.which) =>
          /\ bghost.probe_end \in { "ready", "not_ready" }
          /\ \/ bghost.sshpass_runs + bghost.expect_runs >= 1
             \/ details.bootstrap_method = "ssh-expect-missing"

\* C26 as stated: a run in which configure_node_passwords_cloudinit reported
\* success does not invoke the SSH bootstrap.
C26_ReportedSuccessSkipsBootstrap ==
    "cloudinit_ok" \in fxRun => "bootstrap" \notin fxRun

\* C26: a run whose cloudinit_success is true (reported by the cloud-init
\* assignment and not set aside for a --sim-id simulation that is already
\* LOADED or RUNNING, or read back from the checkpoint) does not invoke the
\* SSH bootstrap and records bootstrap_method = cloud-init; the SSH bootstrap
\* is invoked only in a run whose cloudinit_success is false.
C26_CloudInitSkipsBootstrap ==
    /\ cloudinit_success => "bootstrap" \notin fxRun
    /\ "bootstrap" \in fxRun => ~cloudinit_success
    /\ (pc = "install" /\ cloudinit_success /\ lastSet # NoKv) =>
          lastSet = [ bootstrap_method |-> "cloud-init",
                      bootstrap_tool |-> "cloud-init",
                      bootstrap_password_change_prompt |-> None ]

\* the assignment succeeded in this run and cloud-init has been recorded as
\* the bootstrap method
C26_Witness ==
    /\ pc = "install"
    /\ "cloudinit_ok" \in fxRun
    /\ cloudinit_success
    /\ "bootstrap" \notin fxRun
    /\ "bootstrap_method" \in DOMAIN lastSet
    /\ lastSet.bootstrap_method = "cloud-init"

\* C27: on a successful return the label is ssh-expect-pwchange exactly when
\* the password-change flag is true, which is exactly when the expect run
\* printed that it met the forced-change prompt; the two no-pwchange labels
\* come with the flag false, also after sshpass had set it to true.
C27_FlagAgreesWithLabel ==
    (bpc = "returned" /\ bok) =>
        /\ details.bootstrap_method = "ssh-expect-pwchange" <=>
               details.password_change_prompt = "True"
        /\ details.password_change_prompt = "True" <=>
               (bghost.expect_runs = 1 /\ bghost.expect_out.stdout =
                    "Detected forced password-change prompt")
        /\ details.bootstrap_method \in
               { "ssh-sshpass-no-pwchange", "ssh-expect-no-pwchange" } =>
               details.password_change_prompt = "False"

\* sshpass met a forced-change signature, the expect run then succeeded
\* without meeting the prompt
C27_Witness ==
    /\ bpc = "returned"
    /\ bok
    /\ bghost.sshpass_runs = 1
    /\ bghost.sshpass_out.stderr = "You must change your password"
    /\ bghost.expect_runs = 1
    /\ details.bootstrap_method = "ssh-expect-no-pwchange"
    /\ details.password_change_prompt = "False"

\* C28: on a control host with neither sshpass nor expect the call returns
\* failure with label ssh-expect-missing or ssh-tool-missing, and no sshpass
\* run and no expect run is ever made.
C28_NoToolNoAttempt ==
    (pc = "bootstrap" /\ env.ssh_info /\ ~env.sshpass /\ ~env.expect) =>
        /\ bghost.sshpass_runs = 0
        /\ bghost.expect_runs = 0
        /\ bpc = "returned" =>
              /\ ~bok
              /\ details.bootstrap_method \in
                     { "ssh-expect-missing", "ssh-tool-missing" }

\* the probe loop ran out on a host that has which but neither tool
C28_Witness ==
    /\ bpc = "returned"
    /\ env.ssh_info /\ env.which /\ ~env.sshpass /\ ~env.expect
    /\ bghost.probe_end = "not_ready"
    /\ ~bok
    /\ details.bootstrap_method = "ssh-expect-missing"
    /\ details.bootstrap_tool = "expect"

\* C29: in a feature-derived list no action of a feature stands before an
\* action of a feature that features.yaml declares earlier.
C29_FeatureOrderKept ==
    (pc = "plan" /\ apc = "planned" /\ qres.explicit.kind # "list") =>
        LET DeclaredAt(n) ==
                CHOOSE k \in 1..Len(qres.features) : qres.features[k].name = n
        IN  \A p \in 1..Len(actions), q \in 1..Len(actions) :
                p < q => DeclaredAt(actions[p].name[1])
                             <= DeclaredAt(actions[q].name[1])

\* C30: an explicit action list is the list the loop is entered with,
\* whichever features are enabled; only an empty list ends the call early.
C30_ExplicitListExecuted ==
    (pc = "plan" /\ apc # "entry" /\ qres.explicit.kind = "list") =>
        /\ actions = qres.explicit.list
        /\ apc = IF qres.explicit.list = << >> THEN "no_actions" ELSE "planned"

C32_DiagnosticsBeforeFatalReturn ==
    /\ pc = "loadfail" => "diagnostics" \in fxRun
    /\ (pc = "done" /\ rc \notin { 0, 130 }
          /\ fxRun \cap { "node_timeout", "fatal_action_failure" } # {}) =>
          "diagnostics" \in fxRun

\* C33: every write leaves in the artifact exactly the record of an instance
\* that has written, whatever the other instance persisted before; and while
\* only one instance has written, the artifact holds for every key the value
\* persisted last.
C33_NoMutualExclusion ==
    /\ (pc = "race" /\ qres.writers # {}) =>
          /\ file.st = "ok"
          /\ \E p \in qres.writers : file.rec = data[p]
    /\ (pc = "race" /\ Cardinality(qres.writers) <= 1) => _load(file) = wpost

\* both instances have written, and the simulation_id one of them persisted
\* is gone from the artifact after a write of the other
C33_Witness ==
    /\ pc = "race"
    /\ qres.writers = { 1, 2 }
    /\ wpost.simulation_id = "sim"
    /\ file.st = "ok"
    /\ file.rec.simulation_id = None
    /\ \E p \in 1..2 : data[p].simulation_id = "sim"

\* C34: a run without --resume stands before the load wait with
\* simulation_loaded as its last step only when the start step of a --sim-id
\* run found the simulation LOADED or RUNNING and did not call
\* start_simulation; from there the load wait is not executed: the run goes
\* on to the SSH-service step and cannot end at a simulation that did not load.
C34_SimIdSkipsStartAndLoad ==
    /\ []((pc = "loaded" /\ ~args.resume
             /\ get_last_step(data) = "simulation_loaded") =>
             (args.sim_id /\ "start_simulation" \notin fxRun))
    /\ [][ (StepLoaded /\ args.sim_id /\ ~args.resume
              /\ get_last_step(data) = "simulation_loaded"
              /\ pc' # "killed") =>
               pc' = "sshsvc" ]_vars

\* C35: the cleanup decision is reached with completed as the persisted last
\* step; it leaves the checkpoint removed or as it was; and the step that
\* ends a run removes the checkpoint only when the run returns 0 and none of
\* its post-install actions failed fatally.
C35_ClearedOnlyAfterSuccess ==
    [][ /\ pc' = "cleanup" => get_last_step(_load(file')) = "completed"
        /\ StepCleanup => (file' = NoFile \/ file' = file)
        /\ (pc \in Running /\ pc' = "done" /\ file # NoFile /\ file' = NoFile) =>
              (rc' = 0 /\ "fatal_action_failure" \notin fxRun) ]_vars

\* C36: in a run that started from a cleared checkpoint, whenever the
\* artifact makes is_step_completed true for ssh_enabled or bcm_installed,
\* the run has called enable_ssh_service or install_bcm, and whenever it
\* makes it true for features_configured the run has been through the
\* post-install block.
C36_RecordedOnlyAfterOperation ==
    (pc \in Running /\ fresh # "no") =>
        /\ is_step_completed(_load(file), "ssh_enabled") =>
              "enable_ssh_service" \in fxRun
        /\ is_step_completed(_load(file), "bcm_installed") =>
              "install_bcm" \in fxRun
        /\ is_step_completed(_load(file), "features_configured") =>
              firstDone # None /\ ~args.skip_ansible

\* C37: a run without --resume skips no step; the first post-install action
\* it dispatches is the action of index 0, and it does not leave the loop
\* over a list that is not empty without having dispatched an action.
C37_NoResumeStartsAtZero ==
    (pc \in Running /\ ~args.resume) =>
        /\ \A step \in StepNames : ~Skip(step)
        /\ pc = "features" =>
              /\ ran # << >> => ran[1] = 0
              /\ (apc = "returned" /\ Len(actions) > 0) => ran # << >>

\* C38: the process that falls back has dumped the diagnostics, deleted the
\* simulation and cleared the checkpoint, and is not itself a re-run; the
\* re-run has no --resume and has --skip-cloud-init, and it starts the
\* deployment at its first step (or fails to authenticate): it does not end
\* at once with status 0.
C38_FallbackRerunsOnce ==
    [][ /\ pc' = "rerun" =>
              /\ "auto_fallback" \notin fxRun
              /\ { "diagnostics", "delete_simulation" } \subseteq fxRun'
              /\ file' = NoFile
        /\ Rerun =>
              /\ ~args'.resume
              /\ args'.skip_cloud_init
              /\ pc' = "version" \/ (pc' = "done" /\ rc' = 1) ]_vars

\* C39: the dispatch of an action whose type is none of cmsh, upload_ztp,
\* reboot, wlm_setup performs nothing, leaves the success flag and the
\* artifact as they were and goes on to the advance; the advance persists
\* index i + 1 and, when an action follows, goes on to it.
C39_UnknownTypeSkipped ==
    [][ /\ (LoopDispatch /\ actions[i + 1] = "other") =>
              /\ lastOut'.out = "skipped"
              /\ success' = success
              /\ file' = file
              /\ apc' = "advance"
        /\ (LoopAdvance /\ actions[i + 1] = "other" /\ pc' # "killed") =>
              /\ success' = success
              /\ i' = i + 1
              /\ file'.rec.post_install_action_index = i + 1
              /\ i + 1 < Len(actions) => apc' = "persist" ]_vars

\* an action of unknown type was skipped and the script after it was run
C39_Witness ==
    /\ pc = "features"
    /\ actions = << "other", "cmsh" >>
    /\ ran = << 0, 1 >>
    /\ lastOut.type = "cmsh"
    /\ lastOut.out = "ok"
    /\ success
    /\ apc = "advance"

====
